---- MODULE Spec2Model ----
(***************************************************************************)
(* Model of src/main.py: the Engaging Networks "new sustainers by month"   *)
(* tool.  Text is modelled as sequences of one-character strings so that   *)
(* str.strip, str.split, str.zfill and int() are computed, not assumed.    *)
(***************************************************************************)
EXTENDS Integers, Sequences, FiniteSets, TLC

VARIABLES
    date_in,        \* argument handed to the two date helpers
    reformatted,    \* value returned by reformat_date_string
    extracted,      \* value returned by parse_date_column
    applied,        \* "no" | "returned" : whether the helpers were called
    frontend,       \* "none" | "cli" | "streamlit" : entry point that ran
    csv_file,       \* [exists, df] : the input path / upload and its content
    month_arg,      \* CLI month text (sys.argv[2] or typed at the prompt)
    target_month,   \* month handed to process_csv (0 = never set)
    filtered_df,    \* what process_csv returned or raised (NotCalled before)
    trace,          \* operations performed by the run, in program order
    disk,           \* files written by save_filtered_csv
    ui              \* messages / widgets shown to the user, in order

vars == <<date_in, reformatted, extracted, applied, frontend, csv_file,
          month_arg, target_month, filtered_df, trace, disk, ui>>

dateVars == <<date_in, reformatted, extracted, applied>>
runVars == <<frontend, csv_file, month_arg, target_month, filtered_df,
             trace, disk, ui>>

(***************************************************************************)
(* Bounds of the model.                                                    *)
(***************************************************************************)
MaxLen == 6
MaxRows == 2
MaxRowsIncomplete == 1

----------------------------------------------------------------------------
(***************************************************************************)
(* Python text primitives.                                                 *)
(***************************************************************************)
Digits == {"0", "1", "2", "3", "4", "5", "6", "7", "8", "9"}

Whitespace == {" "}

\* float('nan') as pandas stores an empty cell; str() of it is "nan"
NaN == <<"NaN">>

Str(d) == IF d = NaN THEN <<"n", "a", "n">> ELSE d

RECURSIVE LStrip(_)
LStrip(s) ==
    IF s # <<>> /\ Head(s) \in Whitespace THEN LStrip(Tail(s)) ELSE s

RECURSIVE RStrip(_)
RStrip(s) ==
    IF s # <<>> /\ s[Len(s)] \in Whitespace
    THEN RStrip(SubSeq(s, 1, Len(s) - 1))
    ELSE s

Strip(s) == RStrip(LStrip(s))

\* str.split(sep): one more part than there are separators, empty parts kept
RECURSIVE SplitOn(_, _, _)
SplitOn(s, seps, cur) ==
    IF s = <<>> THEN <<cur>>
    ELSE IF Head(s) \in seps THEN <<cur>> \o SplitOn(Tail(s), seps, <<>>)
    ELSE SplitOn(Tail(s), seps, Append(cur, Head(s)))

Split(s, sep) == SplitOn(s, {sep}, <<>>)

RECURSIVE Join(_, _)
Join(parts, sep) ==
    IF parts = <<>> THEN <<>>
    ELSE IF Len(parts) = 1 THEN parts[1]
    ELSE parts[1] \o <<sep>> \o Join(Tail(parts), sep)

\* str.zfill(2): left-pad with "0" to width 2, after a leading sign
Zfill2(s) ==
    IF Len(s) >= 2 THEN s
    ELSE IF Len(s) = 1 /\ s[1] \in {"+", "-"} THEN <<s[1], "0">>
    ELSE IF Len(s) = 1 THEN <<"0">> \o s
    ELSE <<"0", "0">>

IsDigits(s) == s # <<>> /\ \A i \in 1..Len(s) : s[i] \in Digits

DigitVal(c) ==
    CASE c = "0" -> 0 [] c = "1" -> 1 [] c = "2" -> 2 [] c = "3" -> 3
      [] c = "4" -> 4 [] c = "5" -> 5 [] c = "6" -> 6 [] c = "7" -> 7
      [] c = "8" -> 8 [] c = "9" -> 9

RECURSIVE DigitsVal(_, _)
DigitsVal(s, acc) ==
    IF s = <<>> THEN acc ELSE DigitsVal(Tail(s), 10 * acc + DigitVal(Head(s)))

\* int(text): surrounding whitespace and one sign allowed; ValueError otherwise
PyInt(text) ==
    LET s == Strip(text)
        signed == s # <<>> /\ s[1] \in {"+", "-"}
        body == IF signed THEN Tail(s) ELSE s
    IN  IF IsDigits(body)
        THEN [ok |-> TRUE,
              val |-> IF signed /\ s[1] = "-"
                      THEN 0 - DigitsVal(body, 0) ELSE DigitsVal(body, 0)]
        ELSE [ok |-> FALSE, val |-> 0]

----------------------------------------------------------------------------
(***************************************************************************)
(* The date helpers.                                                       *)
(***************************************************************************)
None == [none |-> TRUE, val |-> 0]

Some(v) == [none |-> FALSE, val |-> v]

\* mutant: the fields are padded but day and month are not exchanged
reformat_date_string_unswapped(d) ==
    LET parts == Split(Strip(Str(d)), "/")
    IN  IF Len(parts) = 3
        THEN Join(<<Zfill2(parts[1]), Zfill2(parts[2]), parts[3]>>, "/")
        ELSE <<>>

\* Nothing in the try block can raise on a string, so the except arm is dead.
reformat_date_string(d) ==
    LET parts == Split(Strip(Str(d)), "/")
    IN  IF Len(parts) = 3
        THEN Join(<<Zfill2(parts[2]), Zfill2(parts[1]), parts[3]>>, "/")
        ELSE <<>>

\* pd.isna of a str is always False; int(month) raising is caught -> None
parse_date_column(date_str) ==
    LET s == Strip(Str(date_str))
        parts == Split(s, "/")
    IN  IF s = <<"n", "a", "n">> THEN None
        ELSE IF Len(parts) = 3
             THEN IF PyInt(parts[2]).ok THEN Some(PyInt(parts[2]).val) ELSE None
             ELSE None

----------------------------------------------------------------------------
(***************************************************************************)
(* Program constants.                                                      *)
(***************************************************************************)
MONTH_NAMES ==
    <<"January", "February", "March", "April", "May", "June", "July",
      "August", "September", "October", "November", "December">>

COLUMNS_TO_KEEP ==
    <<"Supporter ID", "Supporter Email", "Campaign ID",
      "Organization or Company", "First Name", "Last Name", "Partner Name",
      "Address 1", "City", "State", "ZIP Code",
      "Raisers Edge Constituent ID", "Assigned Region", "Campaign Data 4",
      "Campaign Data 16">>

COLUMNS_TO_RENAME(c) ==
    CASE c = "Campaign Data 4" -> "Donation Amount"
      [] c = "Campaign Data 16" -> "Monthly Donation Start Date"
      [] OTHER -> c

----------------------------------------------------------------------------
(***************************************************************************)
(* pd.to_datetime(column, errors='coerce', dayfirst=True), element by      *)
(* element: the lenient parser of the library.  A value is three digit     *)
(* fields separated by "/" or "-"; the fields are assigned to day, month   *)
(* and year by dateutil's rule for dayfirst=True, and a combination that   *)
(* is no calendar date is coerced to NaT.  With dayfirst=True a text whose  *)
(* second field cannot be a month is still read month-first.               *)
(***************************************************************************)
NaT == [nat |-> TRUE, year |-> 0, month |-> 0, day |-> 0]

Timestamp(y, m, d) == [nat |-> FALSE, year |-> y, month |-> m, day |-> d]

IsLeap(y) == (y % 4 = 0 /\ y % 100 # 0) \/ y % 400 = 0

DaysInMonth(y, m) ==
    IF m = 2 THEN (IF IsLeap(y) THEN 29 ELSE 28)
    ELSE IF m \in {4, 6, 9, 11} THEN 30 ELSE 31

\* two-digit years are moved into the current century window
ConvertYear(y, text) == IF Len(text) <= 2 THEN (IF y < 69 THEN 2000 + y ELSE 1900 + y) ELSE y

MakeDate(y, m, d) ==
    IF y >= 1 /\ m \in 1..12 /\ d >= 1 /\ d <= DaysInMonth(y, m)
    THEN Timestamp(y, m, d)
    ELSE NaT

ToDatetime(v) ==
    LET s == Strip(Str(v))
        f == SplitOn(s, {"/", "-"}, <<>>)
    IN  IF v = NaN \/ Len(f) # 3 THEN NaT
        ELSE IF ~(IsDigits(f[1]) /\ IsDigits(f[2]) /\ IsDigits(f[3])) THEN NaT
        ELSE LET a == DigitsVal(f[1], 0)
                 b == DigitsVal(f[2], 0)
                 c == DigitsVal(f[3], 0)
             IN  IF Len(f[1]) > 2
                 THEN \* year first: ISO text is year-month-day; otherwise
                      \* dayfirst reads year/day/month when that is a month
                      IF Len(f[1]) = 4 /\ Len(f[2]) = 2 /\ Len(f[3]) = 2
                         /\ "/" \notin {s[i] : i \in 1..Len(s)}
                      THEN MakeDate(a, b, c)
                      ELSE IF c <= 12 THEN MakeDate(a, c, b)
                           ELSE MakeDate(a, b, c)
                 ELSE IF a > 12 \/ b <= 12
                      THEN MakeDate(ConvertYear(c, f[3]), b, a)   \* day, month, year
                      ELSE MakeDate(ConvertYear(c, f[3]), a, b)   \* month, day, year

\* Timestamp order; NaT sorts last (na_position='last')
DateLeq(p, q) ==
    IF q.nat THEN TRUE
    ELSE IF p.nat THEN FALSE
    ELSE \/ p.year < q.year
         \/ p.year = q.year /\ p.month < q.month
         \/ p.year = q.year /\ p.month = q.month /\ p.day <= q.day

----------------------------------------------------------------------------
(***************************************************************************)
(* DataFrames: an ordered list of column names and an ordered list of      *)
(* rows; a row keeps the index label read_csv gave it (its position in the *)
(* file) through filtering, sorting and projection.                        *)
(***************************************************************************)
Range(seq) == {seq[i] : i \in 1..Len(seq)}

RECURSIVE SelectRows(_, _)
SelectRows(rows, keep) ==
    IF rows = <<>> THEN <<>>
    ELSE IF keep[Head(rows).index]
         THEN <<Head(rows)>> \o SelectRows(Tail(rows), keep)
         ELSE SelectRows(Tail(rows), keep)

\* df[name] = values : overwrites the column, or appends it as the last one
SetColumn(df, name, values) ==
    [columns |-> IF name \in Range(df.columns) THEN df.columns
                 ELSE Append(df.columns, name),
     rows |-> [i \in 1..Len(df.rows) |->
                 [index |-> df.rows[i].index,
                  cells |-> [c \in Range(df.columns) \cup {name} |->
                               IF c = name THEN values[df.rows[i].index]
                               ELSE df.rows[i].cells[c]]]]]

\* mutant: the mask is ignored
FilterKeepsAll(df, mask) == df

\* df[mask].copy()
Filter(df, mask) == [columns |-> df.columns, rows |-> SelectRows(df.rows, mask)]

\* mutant: the frame is left in file order
SortValuesUnsorted(df, col) == {df}

\* df.sort_values(by=col): kind defaults to 'quicksort', which the library
\* documents as not stable (numpy's introsort exchanges equal keys once a
\* partition is longer than 16 elements), so every order of the rows that
\* is consistent with the keys is a possible result
SortValues(df, col) ==
    LET n == Len(df.rows)
        perms == {p \in [1..n -> 1..n] : \A i, j \in 1..n : i # j => p[i] # p[j]}
        sorted == {p \in perms : \A i \in 1..n : \A j \in 1..n :
                      i < j => DateLeq(df.rows[p[i]].cells[col], df.rows[p[j]].cells[col])}
    IN  {[columns |-> df.columns, rows |-> [i \in 1..n |-> df.rows[p[i]]]] : p \in sorted}

KeyError == [ok |-> FALSE]

\* mutant: the required names are checked but every column is kept
ProjectKeepsAll(df, names) ==
    IF ~(Range(names) \subseteq Range(df.columns)) THEN KeyError
    ELSE [ok |-> TRUE, df |-> df]

\* mutant: names that are no column are skipped instead of raising
ProjectAvailable(df, names) ==
    LET have == SelectSeq(names, LAMBDA c : c \in Range(df.columns))
    IN  [ok |-> TRUE,
         df |-> [columns |-> have,
                 rows |-> [i \in 1..Len(df.rows) |->
                             [index |-> df.rows[i].index,
                              cells |-> [c \in Range(have) |->
                                           df.rows[i].cells[c]]]]]]

\* df[list of names]; a name that is no column raises KeyError
Project(df, names) ==
    IF ~(Range(names) \subseteq Range(df.columns)) THEN KeyError
    ELSE [ok |-> TRUE,
          df |-> [columns |-> names,
                  rows |-> [i \in 1..Len(df.rows) |->
                              [index |-> df.rows[i].index,
                               cells |-> [c \in Range(names) |->
                                            df.rows[i].cells[c]]]]]]

\* df.rename(columns=COLUMNS_TO_RENAME)
Rename(df) ==
    [columns |-> [i \in 1..Len(df.columns) |-> COLUMNS_TO_RENAME(df.columns[i])],
     rows |-> [i \in 1..Len(df.rows) |->
                 [index |-> df.rows[i].index,
                  cells |-> [c \in {COLUMNS_TO_RENAME(k) : k \in Range(df.columns)} |->
                               df.rows[i].cells[
                                   CHOOSE k \in Range(df.columns) :
                                       COLUMNS_TO_RENAME(k) = c]]]]]

\* mutant: the helper is applied to every column
ApplyReformatAll(df, col) ==
    [columns |-> df.columns,
     rows |-> [i \in 1..Len(df.rows) |->
                 [index |-> df.rows[i].index,
                  cells |-> [c \in DOMAIN df.rows[i].cells |->
                               reformat_date_string(df.rows[i].cells[c])]]]]

\* df[col] = df[col].apply(reformat_date_string)
ApplyReformat(df, col) ==
    [columns |-> df.columns,
     rows |-> [i \in 1..Len(df.rows) |->
                 [index |-> df.rows[i].index,
                  cells |-> [c \in DOMAIN df.rows[i].cells |->
                               IF c = col
                               THEN reformat_date_string(df.rows[i].cells[c])
                               ELSE df.rows[i].cells[c]]]]]

Raised(msg) == [called |-> TRUE, ok |-> FALSE, error |-> msg]

Returned(df) == [called |-> TRUE, ok |-> TRUE, df |-> df]

\* The outcomes of process_csv on the frame read_csv produced.  Every
\* exception is re-raised as Exception("Error processing CSV: ...").
process_csv(df, month) ==
    IF "Campaign Data 16" \notin Range(df.columns)
    THEN {Raised("Error processing CSV: Column 'Campaign Data 16' not found in CSV file")}
    ELSE LET n == Len(df.rows)
             dates == [i \in 1..n |-> ToDatetime(df.rows[i].cells["Campaign Data 16"])]
             df1 == SetColumn(df, "parsed_date", dates)
             months == [i \in 1..n |-> dates[i].month]
             df2 == SetColumn(df1, "parsed_month", months)
             mask == [i \in 1..n |-> ~dates[i].nat /\ months[i] = month]
             filtered == Filter(df2, mask)
         IN  { LET kept == Project(s, COLUMNS_TO_KEEP)
               IN  IF ~kept.ok THEN Raised("Error processing CSV: KeyError")
                   ELSE Returned(ApplyReformat(Rename(kept.df),
                                               "Monthly Donation Start Date")) :
               s \in SortValues(filtered, "parsed_date") }

----------------------------------------------------------------------------
(***************************************************************************)
(* Output writer and the two front ends.  A run is one atomic step; trace  *)
(* records the calls it made, in program order.                            *)
(***************************************************************************)
NotCalled == [called |-> FALSE]

NoFile == [exists |-> FALSE]

CsvFile(df) == [exists |-> TRUE, df |-> df]

\* DataFrame.to_csv(filepath, index=False): header line, then one line per row
save_filtered_csv(df, month) ==
    [name |-> <<MONTH_NAMES[month], " New EN Monthly Donors.csv">>,
     header |-> df.columns,
     body |-> [i \in 1..Len(df.rows) |->
                 [j \in 1..Len(df.columns) |-> df.rows[i].cells[df.columns[j]]]]]

\* mutant: the month's range is checked only after the file was processed
run_cli_late_validation(file, text, fromArgv) ==
    LET parsed == PyInt(text)
        idle == [target_month |-> 0, filtered_df |-> NotCalled, disk |-> {}]
    IN  IF ~file.exists
        THEN {idle @@ [trace |-> <<"os.path.exists">>,
                       ui |-> <<"Error: File not found">>]}
        ELSE IF ~parsed.ok
        THEN {idle @@ [trace |-> <<"os.path.exists", "int">>,
                       ui |-> <<"Error: Month must be a number between 1-12">>]}
        ELSE { IF parsed.val < 1 \/ parsed.val > 12
               THEN [target_month |-> parsed.val, filtered_df |-> outcome,
                     disk |-> {},
                     trace |-> <<"os.path.exists", "int", "process_csv", "read_csv">>,
                     ui |-> <<"Error: Month must be between 1 and 12">>]
               ELSE IF ~outcome.ok
               THEN [target_month |-> parsed.val, filtered_df |-> outcome,
                     disk |-> {},
                     trace |-> <<"os.path.exists", "int", "process_csv", "read_csv">>,
                     ui |-> <<outcome.error>>]
               ELSE [target_month |-> parsed.val, filtered_df |-> outcome,
                     disk |-> {save_filtered_csv(outcome.df, parsed.val)},
                     trace |-> <<"os.path.exists", "int", "process_csv", "read_csv",
                                 "save_filtered_csv", "to_csv">>,
                     ui |-> <<"Success!", <<"Found", Len(outcome.df.rows)>>,
                              "Output saved to">>] :
               outcome \in process_csv(file.df, parsed.val) }

\* mutant: like the form, nothing is saved when no row matched
run_cli_skips_empty(file, text, fromArgv) ==
    LET parsed == PyInt(text)
        idle == [target_month |-> 0, filtered_df |-> NotCalled, disk |-> {}]
    IN  IF ~file.exists
        THEN {idle @@ [trace |-> <<"os.path.exists">>,
                       ui |-> <<"Error: File not found">>]}
        ELSE IF ~parsed.ok \/ parsed.val < 1 \/ parsed.val > 12
        THEN {idle @@ [trace |-> <<"os.path.exists", "int">>,
                       ui |-> <<"Error: Month must be between 1 and 12">>]}
        ELSE { IF ~outcome.ok
               THEN [target_month |-> parsed.val, filtered_df |-> outcome,
                     disk |-> {},
                     trace |-> <<"os.path.exists", "int", "process_csv", "read_csv">>,
                     ui |-> <<outcome.error>>]
               ELSE IF Len(outcome.df.rows) = 0
               THEN [target_month |-> parsed.val, filtered_df |-> outcome,
                     disk |-> {},
                     trace |-> <<"os.path.exists", "int", "process_csv", "read_csv">>,
                     ui |-> <<"No records found">>]
               ELSE [target_month |-> parsed.val, filtered_df |-> outcome,
                     disk |-> {save_filtered_csv(outcome.df, parsed.val)},
                     trace |-> <<"os.path.exists", "int", "process_csv", "read_csv",
                                 "save_filtered_csv", "to_csv">>,
                     ui |-> <<"Success!", <<"Found", Len(outcome.df.rows)>>,
                              "Output saved to">>] :
               outcome \in process_csv(file.df, parsed.val) }

\* The possible results of run_cli for a path and the month text (from
\* sys.argv or typed at the prompt): one per outcome of process_csv.
run_cli(file, text, fromArgv) ==
    LET parsed == PyInt(text)
        idle == [target_month |-> 0, filtered_df |-> NotCalled, disk |-> {}]
    IN  IF ~file.exists
        THEN {idle @@ [trace |-> <<"os.path.exists">>,
                       ui |-> <<"Error: File not found">>]}
        ELSE IF ~parsed.ok
        THEN {idle @@ [trace |-> <<"os.path.exists", "int">>,
                       ui |-> IF fromArgv
                              THEN <<"Error: Month must be a number between 1-12">>
                              ELSE <<"Error: Please enter a valid number">>]}
        ELSE IF parsed.val < 1 \/ parsed.val > 12
        THEN {idle @@ [trace |-> <<"os.path.exists", "int">>,
                       ui |-> <<"Error: Month must be between 1 and 12">>]}
        ELSE { IF ~outcome.ok
               THEN [target_month |-> parsed.val, filtered_df |-> outcome,
                     disk |-> {},
                     trace |-> <<"os.path.exists", "int", "process_csv", "read_csv">>,
                     ui |-> <<outcome.error>>]
               ELSE [target_month |-> parsed.val, filtered_df |-> outcome,
                     disk |-> {save_filtered_csv(outcome.df, parsed.val)},
                     trace |-> <<"os.path.exists", "int", "process_csv", "read_csv",
                                 "save_filtered_csv", "to_csv">>,
                     ui |-> <<"Success!", <<"Found", Len(outcome.df.rows)>>,
                              "Output saved to">>] :
               outcome \in process_csv(file.df, parsed.val) }

\* DataFrame.head(): the first five rows
DfHead(rows) == SubSeq(rows, 1, IF Len(rows) < 5 THEN Len(rows) ELSE 5)

\* The possible results of run_streamlit_app for an upload (or none) and
\* the month picked in the select box.
run_streamlit_app(file, month) ==
    IF ~file.exists
    THEN {[target_month |-> month, filtered_df |-> NotCalled, trace |-> <<>>,
           ui |-> <<>>]}
    ELSE { IF ~outcome.ok
           THEN [target_month |-> month, filtered_df |-> outcome,
                 trace |-> <<"process_csv", "read_csv">>,
                 ui |-> <<<<"st.error", outcome.error>>>>]
           ELSE IF Len(outcome.df.rows) > 0
           THEN [target_month |-> month, filtered_df |-> outcome,
                 trace |-> <<"process_csv", "read_csv", "to_csv">>,
                 ui |-> <<<<"st.success", Len(outcome.df.rows)>>,
                          <<"st.dataframe", DfHead(outcome.df.rows)>>,
                          <<"st.download_button",
                            save_filtered_csv(outcome.df, month)>>>>]
           ELSE [target_month |-> month, filtered_df |-> outcome,
                 trace |-> <<"process_csv", "read_csv">>,
                 ui |-> <<<<"st.success", 0>>,
                          <<"st.warning", MONTH_NAMES[month]>>>>] :
           outcome \in process_csv(file.df, month) }

----------------------------------------------------------------------------
(***************************************************************************)
(* Inputs of the model: export files and month arguments.                  *)
(***************************************************************************)
DateSamples ==
    { <<"5", "/", "3", "/", "2", "0", "2", "4">>,        \* 5 March 2024
      <<"2", "0", "/", "3", "/", "2", "0", "2", "4">>,   \* 20 March 2024
      <<"1", "/", "4", "/", "2", "0", "2", "4">>,        \* 1 April 2024
      <<"3", "/", "1", "3", "/", "2", "0", "2", "4">>,   \* month first: 13 March 2024
      <<"7", "-", "3", "-", "2", "0", "2", "3">>,        \* dashes: 7 March 2023
      NaN }                                              \* empty cell

SupporterIds == {"S1", "S2"}

\* the text the export holds for supporter id in a column other than the date
InputCell(id, c) == <<id, c>>

ExtraColumns == <<"Notes", "parsed_date">>

Without(seq, c) == SelectSeq(seq, LAMBDA x : x # c)

Reversed(seq) == [i \in 1..Len(seq) |-> seq[Len(seq) + 1 - i]]

\* headers holding every required column, in the export's order or not
CompleteHeaders == {COLUMNS_TO_KEEP, ExtraColumns \o Reversed(COLUMNS_TO_KEEP)}

\* headers lacking one required column
IncompleteHeaders == {Without(COLUMNS_TO_KEEP, c) : c \in Range(COLUMNS_TO_KEEP)}

InputRow(i, header, id, date) ==
    [index |-> i,
     cells |-> [c \in Range(header) |->
                  IF c = "Campaign Data 16" THEN date ELSE InputCell(id, c)]]

FramesOf(headers, maxRows) ==
    UNION {
      { [columns |-> h,
         rows |-> [i \in 1..n |-> InputRow(i, h, pick[i][1], pick[i][2])]] :
          pick \in [1..n -> SupporterIds \X DateSamples] } :
      h \in headers, n \in 0..maxRows }

\* what read_csv returns: the header and the rows, indexed 1..n
InputFrames ==
    FramesOf(CompleteHeaders, MaxRows)
        \cup FramesOf(IncompleteHeaders, MaxRowsIncomplete)

MonthTexts ==
    { <<"0">>, <<"1">>, <<"2">>, <<"3">>, <<"4">>, <<"5">>, <<"6">>, <<"7">>,
      <<"8">>, <<"9">>, <<"1", "0">>, <<"1", "1">>, <<"1", "2">>,
      <<"1", "3">>, <<"-", "1">>, <<"a", "b", "c">>, <<>> }

----------------------------------------------------------------------------
(***************************************************************************)
(* Specification of a run of the program.                                  *)
(***************************************************************************)
RunIdle ==
    /\ frontend = "none"
    /\ csv_file = NoFile
    /\ month_arg = <<>>
    /\ target_month = 0
    /\ filtered_df = NotCalled
    /\ trace = <<>>
    /\ disk = {}
    /\ ui = <<>>

DateIdle ==
    /\ date_in = <<>>
    /\ reformatted = <<>>
    /\ extracted = None
    /\ applied = "no"

Init == DateIdle /\ RunIdle

\* __main__ without a Streamlit session: run_cli
RunCli ==
    /\ frontend = "none"
    /\ \E file \in {NoFile} \cup {CsvFile(df) : df \in InputFrames},
          text \in MonthTexts, fromArgv \in BOOLEAN :
          \E r \in run_cli(file, text, fromArgv) :
             /\ frontend' = "cli"
             /\ csv_file' = file
             /\ month_arg' = text
             /\ target_month' = r.target_month
             /\ filtered_df' = r.filtered_df
             /\ trace' = r.trace
             /\ disk' = r.disk
             /\ ui' = r.ui
    /\ UNCHANGED dateVars

\* __main__ inside a Streamlit session: run_streamlit_app
RunStreamlitApp ==
    /\ frontend = "none"
    /\ \E file \in {NoFile} \cup {CsvFile(df) : df \in InputFrames},
          month \in 1..12 :
          \E r \in run_streamlit_app(file, month) :
             /\ frontend' = "streamlit"
             /\ csv_file' = file
             /\ month_arg' = <<>>
             /\ target_month' = r.target_month
             /\ filtered_df' = r.filtered_df
             /\ trace' = r.trace
             /\ disk' = {}
             /\ ui' = r.ui
    /\ UNCHANGED dateVars

Next == RunCli \/ RunStreamlitApp

Spec == Init /\ [][Next]_vars

----------------------------------------------------------------------------
(***************************************************************************)
(* Specification of the date helpers alone: every text up to MaxLen over   *)
(* DateChars, and the missing-value cell.                                  *)
(***************************************************************************)
DateChars == {"0", "1", "/", "a", "n", " "}

RECURSIVE TextsUpTo(_)
TextsUpTo(n) ==
    IF n = 0 THEN {<<>>}
    ELSE LET shorter == TextsUpTo(n - 1)
         IN  shorter \cup {Append(t, c) : t \in shorter, c \in DateChars}

InitDate ==
    /\ date_in \in TextsUpTo(MaxLen) \cup {NaN}
    /\ reformatted = <<>>
    /\ extracted = None
    /\ applied = "no"
    /\ RunIdle

ApplyDateHelpers ==
    /\ applied = "no"
    /\ reformatted' = reformat_date_string(date_in)
    /\ extracted' = parse_date_column(date_in)
    /\ applied' = "returned"
    /\ UNCHANGED <<date_in, runVars>>

NextDate == ApplyDateHelpers

SpecDate == InitDate /\ [][NextDate]_vars

----------------------------------------------------------------------------
(***************************************************************************)
(* Properties.                                                             *)
(***************************************************************************)
HasTable == filtered_df.called /\ filtered_df.ok

\* the value an output row had in the date column of the input file
OriginalDate(r) == csv_file.df.rows[r.index].cells["Campaign Data 16"]

OutRows == filtered_df.df.rows

\* the fixed output column list, as the export's consumers expect it
OutputColumns ==
    <<"Supporter ID", "Supporter Email", "Campaign ID",
      "Organization or Company", "First Name", "Last Name", "Partner Name",
      "Address 1", "City", "State", "ZIP Code",
      "Raisers Edge Constituent ID", "Assigned Region", "Donation Amount",
      "Monthly Donation Start Date">>

InputName(c) ==
    IF c = "Donation Amount" THEN "Campaign Data 4"
    ELSE IF c = "Monthly Donation Start Date" THEN "Campaign Data 16"
    ELSE c

\* C1: a table returned by process_csv holds only rows of the input (no more
\* than the input has, each input row at most once), the original date of
\* every returned row parses to a date in the target month, and no row with
\* an unparseable date is returned.
C1_FilterKeepsOnlyTargetMonth ==
    HasTable =>
        /\ Len(OutRows) <= Len(csv_file.df.rows)
        /\ \A i \in 1..Len(OutRows) : OutRows[i].index \in 1..Len(csv_file.df.rows)
        /\ \A i, j \in 1..Len(OutRows) : i # j => OutRows[i].index # OutRows[j].index
        /\ \A i \in 1..Len(OutRows) :
              /\ ~ToDatetime(OriginalDate(OutRows[i])).nat
              /\ ToDatetime(OriginalDate(OutRows[i])).month = target_month

C1_Witness ==
    /\ HasTable
    /\ Len(OutRows) = 1
    /\ Len(csv_file.df.rows) = 2
    /\ \E i \in 1..2 : csv_file.df.rows[i].cells["Campaign Data 16"] = NaN

Chronological ==
    \A i, j \in 1..Len(OutRows) :
        i < j => DateLeq(ToDatetime(OriginalDate(OutRows[i])),
                         ToDatetime(OriginalDate(OutRows[j])))

TiesInFileOrder ==
    \A i, j \in 1..Len(OutRows) :
        (i < j /\ ToDatetime(OriginalDate(OutRows[i])) = ToDatetime(OriginalDate(OutRows[j])))
            => OutRows[i].index < OutRows[j].index

C3_OutputColumnsFixed ==
    HasTable =>
        /\ filtered_df.df.columns = OutputColumns
        /\ \A i \in 1..Len(OutRows) : DOMAIN OutRows[i].cells = Range(OutputColumns)

C3_Witness ==
    /\ HasTable
    /\ Len(OutRows) >= 1
    /\ "Notes" \in Range(csv_file.df.columns)
    /\ csv_file.df.columns[1] # "Supporter ID"

\* a rewritten date cell read as month/day/year
RewrittenMonthOk(cell, month) ==
    LET parts == Split(cell, "/")
    IN  \/ cell = <<>>
        \/ ~(Len(parts) = 3 /\ \A k \in 1..3 : IsDigits(parts[k]))
        \/ DigitsVal(parts[1], 0) = month

\* C4: in a returned table every rewritten date cell is empty or
\* unparseable, or carries the target month in its month field.
C4_RewrittenDateInTargetMonth ==
    HasTable =>
        \A i \in 1..Len(OutRows) :
            RewrittenMonthOk(OutRows[i].cells["Monthly Donation Start Date"],
                             target_month)

Malformed(d) ==
    LET s == Strip(Str(d))
        parts == Split(s, "/")
    IN  \/ s = <<>>
        \/ s = <<"n", "a", "n">>
        \/ Len(parts) # 3
        \/ \E k \in 1..Len(parts) : ~PyInt(parts[k]).ok

\* C5: on a malformed date text (empty, the missing-value marker, not three
\* "/"-separated fields, or a non-numeric field) reformat_date_string
\* returns the empty string and parse_date_column returns None, and
\* neither raises.
C5_MalformedDegrades ==
    (applied # "no" /\ Malformed(date_in)) =>
        /\ applied = "returned"
        /\ reformatted = <<>>
        /\ extracted = None

WellFormed(d) ==
    /\ d # NaN
    /\ Len(Split(d, "/")) = 3
    /\ \A k \in 1..3 : IsDigits(Split(d, "/")[k])

\* C6: for a well-formed D/M/Y text the result of reformat_date_string,
\* split on "/" and read as month/day/year, has the day, month and year
\* numbers of the input; month and day are zero-padded to two digits and
\* the year text is unchanged.
C6_ReformatRoundTrip ==
    (applied = "returned" /\ WellFormed(date_in)) =>
        LET in == Split(date_in, "/")
            out == Split(reformatted, "/")
        IN  /\ Len(out) = 3
            /\ \A k \in 1..3 : IsDigits(out[k])
            /\ DigitsVal(out[1], 0) = DigitsVal(in[2], 0)
            /\ DigitsVal(out[2], 0) = DigitsVal(in[1], 0)
            /\ out[3] = in[3]
            /\ Len(out[1]) = (IF Len(in[2]) < 2 THEN 2 ELSE Len(in[2]))
            /\ Len(out[2]) = (IF Len(in[1]) < 2 THEN 2 ELSE Len(in[1]))

C6_Witness ==
    /\ applied = "returned"
    /\ date_in = <<"1", "/", "1", "0", "/", "1">>
    /\ reformatted = <<"1", "0", "/", "0", "1", "/", "1">>

LacksRequiredColumn ==
    csv_file.exists /\ ~(Range(COLUMNS_TO_KEEP) \subseteq Range(csv_file.df.columns))

\* C7: when the input lacks a required column, process_csv raises and
\* returns no table, and a CLI run does not reach save_filtered_csv, so
\* nothing is written.
C7_MissingColumnAborts ==
    (LacksRequiredColumn /\ filtered_df.called) =>
        /\ ~filtered_df.ok
        /\ "save_filtered_csv" \notin Range(trace)
        /\ "to_csv" \notin Range(trace)
        /\ disk = {}

C7_Witness ==
    /\ frontend = "cli"
    /\ LacksRequiredColumn
    /\ filtered_df.called
    /\ "Campaign Data 16" \in Range(csv_file.df.columns)
    /\ Len(csv_file.df.rows) = 1
    /\ ToDatetime(csv_file.df.rows[1].cells["Campaign Data 16"]).month = target_month

BadMonthArgument ==
    /\ frontend = "cli"
    /\ ~PyInt(month_arg).ok \/ PyInt(month_arg).val < 1 \/ PyInt(month_arg).val > 12

\* C8 as stated: a CLI run with a month argument that is no integer in
\* 1..12 is rejected before any file access: the path is neither probed nor
\* read, process_csv is not invoked and nothing is written.
C8_RejectedBeforeAnyFileAccess ==
    BadMonthArgument =>
        /\ "os.path.exists" \notin Range(trace)
        /\ "read_csv" \notin Range(trace)
        /\ ~filtered_df.called
        /\ disk = {}

\* C8 as amended: such a run is rejected before the input file is read:
\* the path's existence is probed first, but the file is never read,
\* process_csv is not invoked and nothing is written.
C8_RejectedBeforeFileIsRead ==
    BadMonthArgument =>
        /\ trace[1] = "os.path.exists"
        /\ "read_csv" \notin Range(trace)
        /\ "process_csv" \notin Range(trace)
        /\ ~filtered_df.called
        /\ disk = {}

C8_Witness ==
    /\ BadMonthArgument
    /\ csv_file.exists
    /\ month_arg = <<"1", "3">>
    /\ ui = <<"Error: Month must be between 1 and 12">>

NoRowMatches ==
    \A i \in 1..Len(csv_file.df.rows) :
        LET t == ToDatetime(csv_file.df.rows[i].cells["Campaign Data 16"])
        IN  t.nat \/ t.month # target_month

Shown(widget) == \E i \in 1..Len(ui) : ui[i][1] = widget

\* C9: when no row matches the target month process_csv raises nothing and
\* returns a table without rows; the CLI still saves it, writing a file
\* that holds the header alone, and the form shows a warning and no
\* download button.
C9_EmptyResult ==
    /\ (filtered_df.called /\ ~LacksRequiredColumn /\ NoRowMatches) =>
           (filtered_df.ok /\ OutRows = <<>>)
    /\ (HasTable /\ OutRows = <<>> /\ frontend = "cli") =>
           /\ "save_filtered_csv" \in Range(trace)
           /\ disk = {[name |-> <<MONTH_NAMES[target_month],
                                  " New EN Monthly Donors.csv">>,
                       header |-> OutputColumns,
                       body |-> <<>>]}
    /\ (HasTable /\ OutRows = <<>> /\ frontend = "streamlit") =>
           /\ Shown("st.warning")
           /\ ~Shown("st.download_button")
           /\ "to_csv" \notin Range(trace)

C9_Witness ==
    /\ frontend = "cli"
    /\ HasTable
    /\ OutRows = <<>>
    /\ Len(csv_file.df.rows) = 2
    /\ disk # {}

\* C10: every cell of a returned row outside 'Monthly Donation Start Date'
\* equals the cell of that row in the input under the pre-rename name.
C10_OnlyDateColumnRewritten ==
    HasTable =>
        \A i \in 1..Len(OutRows) :
            \A c \in Range(OutputColumns) \ {"Monthly Donation Start Date"} :
                OutRows[i].cells[c] = csv_file.df.rows[OutRows[i].index].cells[InputName(c)]

C10_Witness ==
    /\ HasTable
    /\ Len(OutRows) = 2
    /\ OutRows[1].cells["Supporter ID"] # OutRows[2].cells["Supporter ID"]
    /\ \A i \in 1..2 :
          OutRows[i].cells["Monthly Donation Start Date"] # OriginalDate(OutRows[i])

====
